---- MODULE Spec2Model ----
(***************************************************************************)
(* A state-machine model of the social-networking backend:                 *)
(*   - the real-time layer of routes.ts (connection registry wsClients,    *)
(*     the socket message handler, the close handler),                     *)
(*   - the storage-access layer (DatabaseStorage) over the tables of       *)
(*     schema.ts,                                                          *)
(*   - the authentication module of auth.ts (register, verify, login,      *)
(*     logout, password reset, clear users).                               *)
(* Every await of an async handler is a step boundary: other handlers may  *)
(* run between the database call and its continuation.                     *)
(***************************************************************************)
EXTENDS Integers, Sequences, FiniteSets, TLC

\* ------------------------------------------------------------------ bounds
MaxSocks == 2        \* connections accepted over the life of the server
MaxChats == 2        \* socket messages received over the life of the server
MaxUsers == 2        \* rows ever inserted into users (the serial never resets)
MaxTokens == 2       \* reset tokens ever generated
MaxPosts == 2        \* rows ever inserted into posts
MaxCommunities == 1  \* rows ever inserted into communities
MaxNotifications == 1 \* rows ever inserted into notifications

\* ------------------------------------------------------------ value spaces
Clients == {"c1", "c2"}
UserIds == {1, 2}
\* x-user-id header values, as sequences of characters; <<>> is the absent
\* (or empty) header, which is falsy.
Headers == {<<>>, <<"1">>, <<"2", "x">>}
MsgTypes == {"chat", "typing"}
Usernames == {"ann", "bob"}
Emails == {"ann@x", "bob@x"}
Passwords == {"pw1", "pw2"}
Salts == {"s1", "s2"}      \* randomBytes(16) outcomes
NotificationTypes == {"interested"}

NoUser == 0          \* undefined / null user
NoSock == 0          \* undefined socket (Map.get miss)
NaN == 0 - 1         \* parseInt of a string with no leading digit
NoToken == 0         \* null token column / missing token parameter

VARIABLES
  users,       \* the users table: a set of rows
  nextUserId,  \* the next value of the users.id serial
  nextToken,   \* the next fresh outcome of generateToken
  req,         \* client -> the HTTP request the client has in flight
  resp,        \* client -> status of the last response (0: none yet)
  lastPw,      \* user id -> the plain password most recently set (history)
  session,     \* client -> id of the logged-in user (session.passport.user)
  socks,       \* sequence of accepted connections, by order of acceptance
  wsClients,   \* the registry: a set of <<key, socket>> entries
  chats,       \* one record per socket message handler invocation
  messages,    \* the messages table, in insertion order
  posts,       \* the posts table, in insertion order
  communities, \* the communities table, in insertion order
  notifications, \* the notifications table, in insertion order
  joinRoute,   \* whether POST /api/communities/:id/join has been registered
  sentLog      \* every recipientWs.send, in order

authVars == <<users, nextUserId, nextToken, req, resp, lastPw>>
storeVars == <<posts, communities, notifications, joinRoute>>
wsVars == <<socks, wsClients, chats, messages, sentLog, storeVars>>
vars == <<users, nextUserId, nextToken, req, resp, lastPw, session,
          socks, wsClients, chats, messages, sentLog,
          posts, communities, notifications, joinRoute>>

\* ------------------------------------------------------------- JS helpers
IsDigit(ch) == ch \in {"0", "1", "2", "3", "4", "5", "6", "7", "8", "9"}

DigitVal(ch) ==
  CASE ch = "0" -> 0 [] ch = "1" -> 1 [] ch = "2" -> 2 [] ch = "3" -> 3
    [] ch = "4" -> 4 [] ch = "5" -> 5 [] ch = "6" -> 6 [] ch = "7" -> 7
    [] ch = "8" -> 8 [] ch = "9" -> 9

RECURSIVE ParseDigits(_, _, _)
ParseDigits(s, i, acc) ==
  IF i > Len(s) \/ ~IsDigit(s[i]) THEN acc
  ELSE ParseDigits(s, i + 1, acc * 10 + DigitVal(s[i]))

\* parseInt: the longest prefix of decimal digits, NaN when there is none.
parseInt(s) ==
  IF Len(s) = 0 \/ ~IsDigit(s[1]) THEN NaN ELSE ParseDigits(s, 1, 0)

\* if (userId): a header that is present and not empty.
Truthy(hdr) == Len(hdr) > 0

\* Map.set, Map.delete, Map.get over a set of <<key, value>> entries.
MapSetKeepOld(m, k, v) == m \cup {<<k, v>>}
MapSet(m, k, v) == {e \in m : e[1] # k} \cup {<<k, v>>}

MapDelete(m, k) == {e \in m : e[1] # k}

MapHas(m, k) == \E e \in m : e[1] = k

MapGet(m, k) == IF MapHas(m, k) THEN (CHOOSE e \in m : e[1] = k)[2] ELSE NoSock

\* ------------------------------------------------------------------- Init
NoMessage == [id |-> 0, senderId |-> 0, receiverId |-> 0, content |-> "",
              createdAt |-> 0]

Idle == [op |-> "idle", un |-> "", em |-> "", pw |-> "", uid |-> NoUser,
         tok |-> NoToken, stored |-> <<>>, want |-> FALSE]

Init ==
  /\ users = {}
  /\ nextUserId = 1
  /\ nextToken = 1
  /\ req = [c \in Clients |-> Idle]
  /\ resp = [c \in Clients |-> 0]
  /\ lastPw = [i \in 1..MaxUsers |-> ""]
  /\ session = [c \in Clients |-> NoUser]
  /\ socks = <<>>
  /\ wsClients = {}
  /\ chats = <<>>
  /\ messages = <<>>
  /\ sentLog = <<>>
  /\ posts = <<>>
  /\ communities = <<>>
  /\ notifications = <<>>
  /\ joinRoute = FALSE

\* --------------------------------------------------------- real-time layer
\* wss.on('connection'): the socket is OPEN; the registry entry is keyed by
\* the x-user-id header alone. `auth` remembers who the connecting client was
\* logged in as (the handler never reads it).
Connect(c, hdr) ==
  /\ Len(socks) < MaxSocks
  /\ socks' = Append(socks, [state |-> "OPEN", hdr |-> hdr, auth |-> session[c]])
  /\ wsClients' = IF Truthy(hdr)
                  THEN MapSet(wsClients, parseInt(hdr), Len(socks) + 1)
                  ELSE wsClients
  /\ UNCHANGED <<authVars, session, chats, messages, sentLog, storeVars>>

\* The closing handshake starts: readyState leaves OPEN before 'close' fires.
BeginClose(s) ==
  /\ s \in DOMAIN socks
  /\ socks[s].state = "OPEN"
  /\ socks' = [socks EXCEPT ![s].state = "CLOSING"]
  /\ UNCHANGED <<authVars, session, wsClients, chats, messages, sentLog, storeVars>>

\* ws.on('close')
CloseEvent(s) ==
  /\ s \in DOMAIN socks
  /\ socks[s].state # "CLOSED"
  /\ socks' = [socks EXCEPT ![s].state = "CLOSED"]
  /\ wsClients' = IF Truthy(socks[s].hdr)
                  THEN MapDelete(wsClients, parseInt(socks[s].hdr))
                  ELSE wsClients
  /\ UNCHANGED <<authVars, session, chats, messages, sentLog, storeVars>>

\* The clock reading of the latest createMessage call: new Date() never
\* runs backwards, and two calls in the same millisecond read the same value.
LastCreatedAt == IF chats = <<>> THEN 0 ELSE chats[Len(chats)].createdAt

\* ws.on('message'), up to the await: the insert is issued for a chat
\* message, with createdAt read from the clock (now) as createMessage builds
\* the row; a message of any other type changes nothing.
ChatReceive(s, type, senderId, receiverId, content, now) ==
  /\ s \in DOMAIN socks
  /\ socks[s].state # "CLOSED"
  /\ Len(chats) < MaxChats
  /\ now >= 1 /\ now >= LastCreatedAt
  /\ chats' = IF type = "chat"
              THEN Append(chats, [pc |-> "insert", senderId |-> senderId,
                                  receiverId |-> receiverId, content |-> content,
                                  createdAt |-> now, saved |-> NoMessage])
              ELSE chats
  /\ UNCHANGED <<authVars, session, socks, wsClients, messages, sentLog, storeVars>>

\* storage.createMessage resolves: the row is in the table and the handler
\* holds the returned record.
CreateMessageCommit(h) ==
  /\ h \in DOMAIN chats
  /\ chats[h].pc = "insert"
  /\ LET row == [id |-> Len(messages) + 1, senderId |-> chats[h].senderId,
                 receiverId |-> chats[h].receiverId, content |-> chats[h].content,
                 createdAt |-> chats[h].createdAt]
     IN /\ messages' = Append(messages, row)
        /\ chats' = [chats EXCEPT ![h].pc = "saved", ![h].saved = row]
  /\ UNCHANGED <<authVars, session, socks, wsClients, sentLog, storeVars>>

\* storage.createMessage rejects: the async handler ends there.
CreateMessageFail(h) ==
  /\ h \in DOMAIN chats
  /\ chats[h].pc = "insert"
  /\ chats' = [chats EXCEPT ![h].pc = "failed"]
  /\ UNCHANGED <<authVars, session, socks, wsClients, messages, sentLog, storeVars>>

\* The handler may forward once the awaited insert has resolved.
CanForwardEarly(h) == chats[h].pc \in {"insert", "saved"}
CanForward(h) == chats[h].pc = "saved"

\* recipientWs?.readyState === WebSocket.OPEN
SendableAnyState(ws) == ws # NoSock
Sendable(ws) == ws # NoSock /\ socks[ws].state = "OPEN"

\* The continuation after the await: look the recipient up and send.
ChatForward(h) ==
  /\ h \in DOMAIN chats
  /\ CanForward(h)
  /\ LET recipientWs == MapGet(wsClients, chats[h].receiverId)
     IN sentLog' = IF Sendable(recipientWs)
                   THEN Append(sentLog, [chat |-> h, to |-> recipientWs,
                                         message |-> chats[h].saved,
                                         readyState |-> socks[recipientWs].state])
                   ELSE sentLog
  /\ chats' = [chats EXCEPT ![h].pc = "done"]
  /\ UNCHANGED <<authVars, session, socks, wsClients, messages, storeVars>>

\* ---------------------------------------------------- storage: user rows
getUser(id) == {u \in users : u.id = id}

getUserByUsername(username) == {u \in users : u.username = username}

getUserByEmail(email) == {u \in users : u.email = email}

\* A null column matches no token (SQL equality with NULL selects nothing).
getUserByVerificationToken(token) ==
  {u \in users : u.verificationToken # NoToken /\ u.verificationToken = token}

getUserByResetToken(token) ==
  {u \in users : u.resetPasswordToken # NoToken /\ u.resetPasswordToken = token}

\* const [user] = rows
First(rows) == CHOOSE u \in rows : TRUE

\* users.username and users.email are declared unique(): the insert is
\* rejected when either value is already stored.
NoUniqueConstraint(username, email) == FALSE
UniqueViolation(username, email) ==
  \E u \in users : u.username = username \/ u.email = email

\* The row createUser inserts: whatever the caller passes, verified is true
\* and both tokens are null.
createUserRow(id, username, email, password) ==
  [id |-> id, username |-> username, email |-> email, password |-> password,
   verified |-> TRUE, verificationToken |-> NoToken,
   resetPasswordToken |-> NoToken]

verifyUser(id) ==
  {IF u.id = id THEN [u EXCEPT !.verified = TRUE, !.verificationToken = NoToken]
   ELSE u : u \in users}

setResetToken(id, token) ==
  {IF u.id = id THEN [u EXCEPT !.resetPasswordToken = token] ELSE u : u \in users}

updatePassword(id, newPassword) ==
  {IF u.id = id
   THEN [u EXCEPT !.password = newPassword, !.resetPasswordToken = NoToken]
   ELSE u : u \in users}

\* ------------------------------------------------------- password hashing
\* scrypt as a collision-free key derivation of (password, salt).
scrypt(password, salt) == <<"scrypt", password, salt>>

\* `${hex}.${salt}`, kept as the pair the stored string splits into.
hashPassword(password, salt) == <<scrypt(password, salt), salt>>

comparePasswordsSaltOnly(supplied, stored) == stored[2] \in Salts
comparePasswords(supplied, stored) == scrypt(supplied, stored[2]) = stored[1]

\* ------------------------------------------------------------ auth routes
InFlight(op) == Cardinality({c \in Clients : req[c].op = op})

Respond(c, status) ==
  /\ req' = [req EXCEPT ![c] = Idle]
  /\ resp' = [resp EXCEPT ![c] = status]

Await(c, r) ==
  /\ req' = [req EXCEPT ![c] = r]
  /\ resp' = [resp EXCEPT ![c] = 0]

\* POST /api/register, first query: is the username taken?
RegisterCheckUsername(c, un, em, pw) ==
  /\ req[c].op = "idle"
  /\ nextUserId + InFlight("register.email") + InFlight("register.insert") <= MaxUsers
  /\ IF getUserByUsername(un) # {}
     THEN Respond(c, 400)
     ELSE Await(c, [Idle EXCEPT !.op = "register.email", !.un = un, !.em = em, !.pw = pw])
  /\ UNCHANGED <<users, nextUserId, nextToken, lastPw, session, wsVars>>

\* second query: is the email taken?
RegisterCheckEmail(c) ==
  /\ req[c].op = "register.email"
  /\ IF getUserByEmail(req[c].em) # {}
     THEN Respond(c, 400)
     ELSE Await(c, [req[c] EXCEPT !.op = "register.insert"])
  /\ UNCHANGED <<users, nextUserId, nextToken, lastPw, session, wsVars>>

\* hashPassword, storage.createUser, req.login; a rejected insert is caught
\* and answered 500.
RegisterInsert(c, salt) ==
  /\ req[c].op = "register.insert"
  /\ IF UniqueViolation(req[c].un, req[c].em)
     THEN /\ Respond(c, 500)
          /\ UNCHANGED <<users, nextUserId, lastPw, session>>
     ELSE /\ users' = users \cup {createUserRow(nextUserId, req[c].un, req[c].em,
                                                hashPassword(req[c].pw, salt))}
          /\ nextUserId' = nextUserId + 1
          /\ lastPw' = [lastPw EXCEPT ![nextUserId] = req[c].pw]
          /\ session' = [session EXCEPT ![c] = nextUserId]
          /\ Respond(c, 201)
  /\ UNCHANGED <<nextToken, wsVars>>

\* GET /api/verify. The lookup and verifyUser are one step here: no row ever
\* holds a token, so the lookup never finds a user to verify.
Verify(c, token) ==
  /\ req[c].op = "idle"
  /\ IF token = NoToken \/ getUserByVerificationToken(token) = {}
     THEN /\ Respond(c, 400)
          /\ UNCHANGED users
     ELSE /\ users' = verifyUser(First(getUserByVerificationToken(token)).id)
          /\ Respond(c, 200)
  /\ UNCHANGED <<nextUserId, nextToken, lastPw, session, wsVars>>

\* POST /api/reset-password, the lookup by email
ResetRequest(c, em) ==
  /\ req[c].op = "idle"
  /\ nextToken + InFlight("reset.set") <= MaxTokens
  /\ IF getUserByEmail(em) = {}
     THEN Respond(c, 400)
     ELSE Await(c, [Idle EXCEPT !.op = "reset.set", !.em = em,
                                !.uid = First(getUserByEmail(em)).id])
  /\ UNCHANGED <<users, nextUserId, nextToken, lastPw, session, wsVars>>

\* generateToken, storage.setResetToken, then the email: 500 when it is not
\* sent, with the token already stored.
ResetSetToken(c, emailSent) ==
  /\ req[c].op = "reset.set"
  /\ users' = setResetToken(req[c].uid, nextToken)
  /\ nextToken' = nextToken + 1
  /\ Respond(c, IF emailSent THEN 200 ELSE 500)
  /\ UNCHANGED <<nextUserId, lastPw, session, wsVars>>

\* POST /api/reset-password/confirm, the lookup by token
ResetConfirm(c, token, newPassword) ==
  /\ req[c].op = "idle"
  /\ IF token = NoToken \/ newPassword = "" \/ getUserByResetToken(token) = {}
     THEN Respond(c, 400)
     ELSE Await(c, [Idle EXCEPT !.op = "confirm.update", !.pw = newPassword,
                                !.tok = token,
                                !.uid = First(getUserByResetToken(token)).id])
  /\ UNCHANGED <<users, nextUserId, nextToken, lastPw, session, wsVars>>

\* hashPassword, storage.updatePassword
ResetConfirmUpdate(c, salt) ==
  /\ req[c].op = "confirm.update"
  /\ users' = updatePassword(req[c].uid, hashPassword(req[c].pw, salt))
  /\ lastPw' = IF getUser(req[c].uid) # {}
               THEN [lastPw EXCEPT ![req[c].uid] = req[c].pw]
               ELSE lastPw
  /\ Respond(c, 200)
  /\ UNCHANGED <<nextUserId, nextToken, session, wsVars>>

\* POST /api/login, LocalStrategy up to the first await: the user row is
\* read; no row answers 401.
LoginRead(c, un, pw) ==
  /\ req[c].op = "idle"
  /\ IF getUserByUsername(un) = {}
     THEN Respond(c, 401)
     ELSE LET user == First(getUserByUsername(un))
          IN Await(c, [Idle EXCEPT !.op = "login.compare", !.un = un, !.pw = pw,
                                   !.uid = user.id, !.stored = user.password,
                                   !.want = (lastPw[user.id] = pw)])
  /\ UNCHANGED <<users, nextUserId, nextToken, lastPw, session, wsVars>>

\* comparePasswords against the row that was read, then req.login
LoginCompare(c) ==
  /\ req[c].op = "login.compare"
  /\ IF comparePasswords(req[c].pw, req[c].stored)
     THEN /\ session' = [session EXCEPT ![c] = req[c].uid]
          /\ Respond(c, 200)
     ELSE /\ Respond(c, 401)
          /\ UNCHANGED session
  /\ UNCHANGED <<users, nextUserId, nextToken, lastPw, wsVars>>

\* POST /api/logout
Logout(c) ==
  /\ req[c].op = "idle"
  /\ session' = [session EXCEPT ![c] = NoUser]
  /\ Respond(c, 200)
  /\ UNCHANGED <<users, nextUserId, nextToken, lastPw, wsVars>>

\* storage.clearUsers: db.delete(users) empties the users table; no other
\* table references users, so nothing cascades.
clearUsersCascading ==
  [users |-> {},
   posts |-> SelectSeq(posts, LAMBDA p : \A u \in users : u.id # p.userId)]
clearUsers == [users |-> {}, posts |-> posts]

\* POST /api/users/clear
ClearUsers(c) ==
  /\ req[c].op = "idle"
  /\ users' = clearUsers.users
  /\ posts' = clearUsers.posts
  /\ Respond(c, 200)
  /\ UNCHANGED <<nextUserId, nextToken, lastPw, session,
                 socks, wsClients, chats, messages, sentLog,
                 communities, notifications, joinRoute>>

\* The email address a username registers with where a specification ties
\* the two together.
EmailOf(un) == IF un = "ann" THEN "ann@x" ELSE "bob@x"

\* The salt drawn for a password where a specification ties the two together.
SaltOf(pw) == IF pw = "pw1" THEN "s1" ELSE "s2"

\* Registration, verification and bulk deletion of users.
RegNext ==
  \/ \E c \in Clients, un \in Usernames, em \in Emails, pw \in Passwords :
       RegisterCheckUsername(c, un, em, pw)
  \/ \E c \in Clients : RegisterCheckEmail(c)
  \/ \E c \in Clients, salt \in Salts : RegisterInsert(c, salt)
  \/ \E c \in Clients, t \in 0..MaxTokens : Verify(c, t)
  \/ \E c \in Clients : Logout(c)
  \/ \E c \in Clients : ClearUsers(c)

SpecReg == Init /\ [][RegNext]_vars

\* Registration, password reset and login.
AuthNext ==
  \/ \E c \in Clients, un \in Usernames, pw \in Passwords :
       RegisterCheckUsername(c, un, EmailOf(un), pw)
  \/ \E c \in Clients : RegisterCheckEmail(c)
  \/ \E c \in Clients : RegisterInsert(c, SaltOf(req[c].pw))
  \/ \E c \in Clients, em \in Emails : ResetRequest(c, em)
  \/ \E c \in Clients, sent \in BOOLEAN : ResetSetToken(c, sent)
  \/ \E c \in Clients, t \in 0..MaxTokens, pw \in Passwords \cup {""} :
       ResetConfirm(c, t, pw)
  \/ \E c \in Clients : ResetConfirmUpdate(c, SaltOf(req[c].pw))
  \/ \E c \in Clients, un \in Usernames, pw \in Passwords : LoginRead(c, un, pw)
  \/ \E c \in Clients : LoginCompare(c)
  \/ \E c \in Clients : Logout(c)

SpecAuth == Init /\ [][AuthNext]_vars

\* ------------------------------------------------ posts, communities, ...
\* req.user: the row passport.deserializeUser finds for the session's id.
ReqUser(c) == getUser(session[c])

\* order by createdAt desc: rows are inserted in createdAt order.
NewestFirst(rows) == [i \in 1..Len(rows) |-> rows[Len(rows) + 1 - i]]

NotArchived(post) == ~post.archived
AnyPost(post) == TRUE

\* storage.getPosts: where archived = false, order by createdAt desc.
getPostsUnfiltered == NewestFirst(SelectSeq(posts, AnyPost))
getPosts == NewestFirst(SelectSeq(posts, NotArchived))

\* storage.archivePost: update ... set archived = true where id = ...
archivePostDeleting(id) == SelectSeq(posts, LAMBDA p : p.id # id)
archivePost(id) ==
  [i \in DOMAIN posts |-> IF posts[i].id = id
                          THEN [posts[i] EXCEPT !.archived = TRUE]
                          ELSE posts[i]]

\* storage.markNotificationAsRead: update ... set read = true where id = ...
markNotificationAsRead(id) ==
  [i \in DOMAIN notifications |-> IF notifications[i].id = id
                                  THEN [notifications[i] EXCEPT !.read = TRUE]
                                  ELSE notifications[i]]

\* POST /api/posts: req.user!.id throws for a request without a user, before
\* storage is called; a userId in the body replaces the session's.
CreatePost(c, content, bodyUserId) ==
  /\ req[c].op = "idle"
  /\ ReqUser(c) # {}
  /\ Len(posts) < MaxPosts
  /\ posts' = Append(posts, [id |-> Len(posts) + 1,
                             userId |-> IF bodyUserId # NoUser THEN bodyUserId
                                        ELSE First(ReqUser(c)).id,
                             content |-> content, archived |-> FALSE])
  /\ UNCHANGED <<authVars, session,
                 socks, wsClients, chats, messages, sentLog,
                 communities, notifications, joinRoute>>

\* PATCH /api/posts/:id/archive: registers the join route, then archives.
ArchivePost(c, id) ==
  /\ req[c].op = "idle"
  /\ joinRoute' = TRUE
  /\ posts' = archivePost(id)
  /\ UNCHANGED <<authVars, session,
                 socks, wsClients, chats, messages, sentLog,
                 communities, notifications>>

\* POST /api/communities/:id/join, once registered: 401 without a user;
\* with one, storage.joinCommunity does not exist and the handler throws.
\* No table is written either way.
JoinCommunity(c, id) ==
  /\ req[c].op = "idle"
  /\ joinRoute
  /\ UNCHANGED vars

\* POST /api/communities
CreateCommunity(c, name) ==
  /\ req[c].op = "idle"
  /\ ReqUser(c) # {}
  /\ Len(communities) < MaxCommunities
  /\ communities' = Append(communities, [id |-> Len(communities) + 1, name |-> name,
                                         createdBy |-> First(ReqUser(c)).id])
  /\ UNCHANGED <<authVars, session,
                 socks, wsClients, chats, messages, sentLog,
                 posts, notifications, joinRoute>>

\* POST /api/notifications
CreateNotification(c, userId, type) ==
  /\ req[c].op = "idle"
  /\ Len(notifications) < MaxNotifications
  /\ IF ReqUser(c) = {}
     THEN UNCHANGED notifications
     ELSE notifications' = Append(notifications,
                                  [id |-> Len(notifications) + 1, userId |-> userId,
                                   type |-> type, read |-> FALSE])
  /\ UNCHANGED <<authVars, session,
                 socks, wsClients, chats, messages, sentLog,
                 posts, communities, joinRoute>>

\* PATCH /api/notifications/:id/read
MarkNotificationAsRead(c, id) ==
  /\ req[c].op = "idle"
  /\ IF ReqUser(c) = {}
     THEN UNCHANGED notifications
     ELSE notifications' = markNotificationAsRead(id)
  /\ UNCHANGED <<authVars, session,
                 socks, wsClients, chats, messages, sentLog,
                 posts, communities, joinRoute>>

\* Every operation that writes a table, with the requests of one client:
\* one registering user name, one connection, one socket message.
StoreNext ==
  \/ RegisterCheckUsername("c1", "ann", "ann@x", "pw1")
  \/ RegisterCheckEmail("c1")
  \/ RegisterInsert("c1", "s1")
  \/ ClearUsers("c1")
  \/ Connect("c1", <<"1">>) /\ Len(socks') <= 1
  \/ ChatReceive(1, "chat", 2, 1, "hi", LastCreatedAt + 1) /\ Len(chats') <= 1
  \/ CreateMessageCommit(1)
  \/ ChatForward(1)
  \/ \E b \in {NoUser, 2} : CreatePost("c1", "hi", b)
  \/ \E id \in 1..MaxPosts : ArchivePost("c1", id)
  \/ JoinCommunity("c1", 1)
  \/ CreateCommunity("c1", "tla")
  \/ \E t \in NotificationTypes : CreateNotification("c1", 1, t)
  \/ \E id \in 1..MaxNotifications : MarkNotificationAsRead("c1", id)

SpecStore == Init /\ [][StoreNext]_vars

\* The sender a chat message names where a specification ties it to the
\* receiver: the other user.
Other(r) == IF r = 1 THEN 2 ELSE 1

\* Connections, closes and socket messages.
WsNext ==
  \/ \E c \in Clients, hdr \in Headers : Connect(c, hdr)
  \/ \E s \in 1..MaxSocks : BeginClose(s)
  \/ \E s \in 1..MaxSocks : CloseEvent(s)
  \/ \E s \in 1..MaxSocks, t \in MsgTypes, r \in UserIds :
       ChatReceive(s, t, Other(r), r, "hi", LastCreatedAt + 1)
  \/ \E h \in 1..MaxChats : CreateMessageCommit(h)
  \/ \E h \in 1..MaxChats : CreateMessageFail(h)
  \/ \E h \in 1..MaxChats : ChatForward(h)

SpecWs == Init /\ [][WsNext]_vars

\* One connection, made by a client that can register, log in and log out,
\* and one socket message.
SessNext ==
  \/ \E c \in Clients, un \in Usernames :
       RegisterCheckUsername(c, un, EmailOf(un), "pw1")
  \/ \E c \in Clients : RegisterCheckEmail(c)
  \/ \E c \in Clients : RegisterInsert(c, "s1")
  \/ \E c \in Clients, un \in Usernames : LoginRead(c, un, "pw1")
  \/ \E c \in Clients : LoginCompare(c)
  \/ \E c \in Clients : Logout(c)
  \/ \E c \in Clients, hdr \in Headers : Connect(c, hdr) /\ Len(socks') <= 1
  \/ \E s \in 1..MaxSocks : CloseEvent(s)
  \/ \E s \in 1..MaxSocks, r \in UserIds :
       ChatReceive(s, "chat", Other(r), r, "hi", LastCreatedAt + 1) /\ Len(chats') <= 1
  \/ \E h \in 1..MaxChats : CreateMessageCommit(h)
  \/ \E h \in 1..MaxChats : ChatForward(h)

SpecSess == Init /\ [][SessNext]_vars

\* ------------------------------------------------------- message queries
\* senderId and receiverId come from the client's message and are not checked
\* against the users table: 3 is an id no user row carries.
PeerIds == UserIds \cup {3}

\* req.query.q as characters; the empty one stands for a request without q.
Queries == {<<>>, <<"a", "n">>, <<"o">>, <<"_">>}

\* users.username as characters
Chars(username) ==
  CASE username = "ann" -> <<"a", "n", "n">>
    [] username = "bob" -> <<"b", "o", "b">>
    [] OTHER -> <<>>

\* drizzle's eq, ne and like build SQL expression objects.
eq(column, value) == [kind |-> "eq", column |-> column, value |-> value]
ne(column, value) == [kind |-> "ne", column |-> column, value |-> value]
like(column, pattern) == [kind |-> "like", column |-> column, value |-> pattern]

\* JavaScript's a || b: an expression object is truthy, so the result is a.
JsOr(a, b) == a

\* SQL LIKE: % matches any run of characters, _ any one character.
RECURSIVE LikeMatch(_, _)
LikeMatch(str, pattern) ==
  IF pattern = <<>> THEN str = <<>>
  ELSE IF Head(pattern) = "%"
       THEN \/ LikeMatch(str, Tail(pattern))
            \/ str # <<>> /\ LikeMatch(Tail(str), pattern)
  ELSE IF str = <<>> THEN FALSE
  ELSE /\ Head(pattern) = "_" \/ Head(pattern) = Head(str)
       /\ LikeMatch(Tail(str), Tail(pattern))

\* A row against one condition of a WHERE clause.
Matches(cond, row) ==
  CASE cond.kind = "eq" -> row[cond.column] = cond.value
    [] cond.kind = "ne" -> row[cond.column] # cond.value
    [] cond.kind = "like" -> LikeMatch(Chars(row[cond.column]), cond.value)

\* ORDER BY created_at: every arrangement of the rows with createdAt
\* ascending; rows with equal createdAt come in either order.
orderByCreatedAt(rows) ==
  LET n == Len(rows)
      Orders == {p \in [1..n -> 1..n] :
                   /\ \A i \in 1..n, j \in 1..n : p[i] = p[j] => i = j
                   /\ \A i \in 1..n, j \in 1..n :
                        i < j => rows[p[i]].createdAt <= rows[p[j]].createdAt}
  IN {[i \in 1..n |-> rows[p[i]]] : p \in Orders}

\* .limit(n) without ORDER BY: any n of the rows when there are more.
QueryLimit == 10
Limit(rows) ==
  IF Cardinality(rows) <= QueryLimit
  THEN {rows}
  ELSE {some \in SUBSET rows : Cardinality(some) = QueryLimit}

\* storage.getMessagesByUser: the results the query can return.
getMessagesByUser(userId) ==
  LET where == JsOr(eq("senderId", userId), eq("receiverId", userId))
      Selected(m) == Matches(where, m)
  IN orderByCreatedAt(SelectSeq(messages, Selected))

\* storage.getUniqueMessageUsers: the results the query can return. The
\* first query yields the other party of every message userId is in; the
\* second one ANDs ne(users.id, userId), one eq(users.id, p) per such party p
\* and, for a non-empty q, the LIKE on the username.
getUniqueMessageUsers(userId, query) ==
  LET Involved == {i \in DOMAIN messages :
                     \/ Matches(eq("senderId", userId), messages[i])
                     \/ Matches(eq("receiverId", userId), messages[i])}
      uniqueUserIds == {IF messages[i].senderId = userId
                        THEN messages[i].receiverId
                        ELSE messages[i].senderId : i \in Involved}
      Selected(u) ==
        /\ Matches(ne("id", userId), u)
        /\ \A p \in uniqueUserIds : Matches(eq("id", p), u)
        /\ Truthy(query) => Matches(like("username", <<"%">> \o query \o <<"%">>), u)
  IN Limit({u \in users : Selected(u)})

\* Users register, one connection carries chat messages between any two ids,
\* with clock readings that may coincide.
MsgNext ==
  \/ \E un \in Usernames : RegisterCheckUsername("c1", un, EmailOf(un), "pw1")
  \/ RegisterCheckEmail("c1")
  \/ RegisterInsert("c1", "s1")
  \/ Connect("c1", <<"1">>) /\ Len(socks') <= 1
  \/ \E snd \in PeerIds, rcv \in PeerIds, now \in {LastCreatedAt, LastCreatedAt + 1} :
       ChatReceive(1, "chat", snd, rcv, "hi", now)
  \/ \E h \in 1..MaxChats : CreateMessageCommit(h)
  \/ \E h \in 1..MaxChats : ChatForward(h)

SpecMsg == Init /\ [][MsgNext]_vars

\* ================================================================ claims
Stored(message) == \E j \in DOMAIN messages : messages[j] = message

SentFor(h) == {i \in DOMAIN sentLog : sentLog[i].chat = h}

\* The key a connection registers under, and whether its 'close' has fired.
KeyOf(s) == parseInt(socks[s].hdr)
Live(s) == socks[s].state # "CLOSED"

\* C1: a chat message is forwarded only after storage.createMessage has
\* completed: every payload ever sent is a row of the message store, a
\* handler still awaiting its insert has sent nothing, and a handler whose
\* insert failed has sent nothing.
C1_PersistBeforeForward ==
  /\ \A i \in DOMAIN sentLog : Stored(sentLog[i].message)
  /\ \A h \in DOMAIN chats :
       chats[h].pc \in {"insert", "failed"} => SentFor(h) = {}

\* One message was forwarded and the insert of another one failed.
C1_Witness ==
  /\ sentLog # <<>>
  /\ \E h \in DOMAIN chats : chats[h].pc = "failed"

\* C2: the registry never holds two entries for one user id.
C2_AtMostOneEntryPerUser ==
  \A e1 \in wsClients, e2 \in wsClients : e1[1] = e2[1] => e1 = e2

\* Two open connections presented the same user id, the id has an entry and
\* a chat message has been handled.
C2_Witness ==
  /\ \E s1 \in DOMAIN socks, s2 \in DOMAIN socks :
       /\ s1 # s2
       /\ Truthy(socks[s1].hdr) /\ Truthy(socks[s2].hdr)
       /\ KeyOf(s1) = KeyOf(s2)
       /\ socks[s1].state = "OPEN" /\ socks[s2].state = "OPEN"
       /\ MapHas(wsClients, KeyOf(s1))
  /\ \E h \in DOMAIN chats : chats[h].pc = "done"

\* C3 (as claimed): a user id has a registry entry exactly when some
\* connection that presented it has not closed, and the entry is such a
\* connection.
C3_EntryIffOpenConnection ==
  /\ \A s \in DOMAIN socks :
       Truthy(socks[s].hdr) /\ Live(s) => MapHas(wsClients, KeyOf(s))
  /\ \A e \in wsClients :
       /\ e[2] \in DOMAIN socks
       /\ Live(e[2])
       /\ KeyOf(e[2]) = e[1]

\* C4 (as claimed): every registry entry for user id u was created by a
\* connection whose client was logged in as u, and a chat message is only
\* sent to a connection whose client was logged in as its receiver.
C4_EntryOnlyForAuthenticatedUser ==
  /\ \A e \in wsClients : socks[e[2]].auth = e[1]
  /\ \A i \in DOMAIN sentLog :
       socks[sentLog[i].to].auth = sentLog[i].message.receiverId

\* The recipient of chat h has a registry entry whose channel is open.
RecipientOpen(h) ==
  /\ MapHas(wsClients, chats[h].receiverId)
  /\ socks[MapGet(wsClients, chats[h].receiverId)].state = "OPEN"

C5_Inv ==
  /\ \A i \in DOMAIN sentLog :
       /\ sentLog[i].readyState = "OPEN"
       /\ Stored(sentLog[i].message)
       /\ SentFor(sentLog[i].chat) = {i}

C5_Step ==
  /\ \/ sentLog' = sentLog
     \/ \E h \in DOMAIN chats :
          /\ chats[h].pc = "saved" /\ chats'[h].pc = "done"
          /\ RecipientOpen(h)
          /\ sentLog' = Append(sentLog,
                               [chat |-> h, to |-> MapGet(wsClients, chats[h].receiverId),
                                message |-> chats[h].saved, readyState |-> "OPEN"])
  /\ \A h \in DOMAIN chats :
       chats[h].pc = "saved" /\ chats'[h].pc = "done" /\ ~RecipientOpen(h)
         => sentLog' = sentLog /\ messages' = messages
  /\ \A j \in DOMAIN messages : j \in DOMAIN messages' /\ messages'[j] = messages[j]

\* C5: delivery is best-effort with no retry. A message is sent at most
\* once, only in the step in which its handler resumes after the insert, and
\* only when the recipient then has an entry whose channel is OPEN;
\* otherwise nothing is sent and the row stays stored. No other step (a
\* later connect among them) sends anything, and nothing is ever sent on a
\* channel that is not OPEN.
C5_BestEffortNoRetry == []C5_Inv /\ [][C5_Step]_vars

\* A stored message whose handler finished without sending, and whose
\* recipient has an open entry now.
C5_Witness ==
  \E h \in DOMAIN chats :
    /\ chats[h].pc = "done"
    /\ Stored(chats[h].saved)
    /\ SentFor(h) = {}
    /\ RecipientOpen(h)

\* The rows of a table keep their place and their id.
RowsKept(table, tableNext) ==
  \A i \in DOMAIN table : i \in DOMAIN tableNext /\ tableNext[i].id = table[i].id

\* What archivePost(id) leaves in the posts table: the same rows, the one
\* with that id archived, the others as they were.
ArchiveKeepsRows(id) ==
  /\ Len(archivePost(id)) = Len(posts)
  /\ \A i \in DOMAIN posts :
       /\ archivePost(id)[i].id = posts[i].id
       /\ posts[i].id = id => archivePost(id)[i].archived
       /\ posts[i].id # id => archivePost(id)[i] = posts[i]

C6_Inv ==
  /\ \A id \in 1..MaxPosts : ArchiveKeepsRows(id)
  /\ \A i \in DOMAIN getPosts : ~getPosts[i].archived

C6_Step ==
  /\ RowsKept(posts, posts')
  /\ \A i \in DOMAIN posts : posts[i].archived => posts'[i].archived

\* C6: posts are soft-deleted. archivePost(id) sets the archived flag of the
\* post and keeps every row; getPosts returns no archived post; no step
\* removes a post or clears the archived flag of one.
C6_SoftDelete == []C6_Inv /\ [][C6_Step]_vars

\* An archived post is still stored after a later post was created and the
\* users were cleared.
C6_Witness ==
  /\ users = {}
  /\ \E i \in DOMAIN posts, j \in DOMAIN posts :
       i < j /\ posts[i].archived /\ ~posts[j].archived

\* C7: no step removes a row of posts, messages, communities or
\* notifications; a step that removes a user removes every user and leaves
\* those four tables unchanged.
C7_OnlyUsersAreDeleted ==
  [][/\ RowsKept(posts, posts')
     /\ RowsKept(messages, messages')
     /\ RowsKept(communities, communities')
     /\ RowsKept(notifications, notifications')
     /\ (\E u \in users : \A v \in users' : v.id # u.id)
          => /\ users' = {}
             /\ posts' = posts
             /\ messages' = messages
             /\ communities' = communities
             /\ notifications' = notifications]_vars

\* The users were cleared while every other table held a row, and a user
\* registered again afterwards.
C7_Witness ==
  /\ nextUserId > 2
  /\ Cardinality(users) = 1
  /\ posts # <<>> /\ messages # <<>> /\ communities # <<>> /\ notifications # <<>>
  /\ \A i \in DOMAIN posts : \A u \in users : posts[i].userId # u.id

C8_Inv ==
  \A u1 \in users, u2 \in users :
    u1 # u2 => /\ u1.id # u2.id
               /\ u1.username # u2.username
               /\ u1.email # u2.email

Taken(username, email) ==
  \E u \in users : u.username = username \/ u.email = email

C8_Step ==
  /\ \A u \in users' \ users : ~Taken(u.username, u.email)
  /\ \A c \in Clients :
       req[c].op \in {"register.email", "register.insert"} /\ req'[c].op = "idle"
       /\ Taken(req[c].un, req[c].em)
         => users' = users /\ resp'[c] \in {400, 500}

\* C8: no two stored users share a username or an email, whatever the
\* interleaving of registrations; a row is only inserted when neither value
\* is stored, and a registration that finds either taken, at a check or at
\* the insert, creates no user.
C8_UniqueUsernameEmail == []C8_Inv /\ [][C8_Step]_vars

\* Two registrations raced: one passed both checks and was then rejected by
\* the insert, the other one is stored.
C8_Witness ==
  /\ users # {}
  /\ \E c \in Clients : resp[c] = 500

\* C9 (as claimed): a row inserted by a registration is unverified and holds
\* a verification token, and a verified flag only turns true in a step that
\* clears that row's token.
C9_TokenIssuedAtRegistration ==
  [][/\ \A u \in users' : (\A v \in users : v.id # u.id)
          => ~u.verified /\ u.verificationToken # NoToken
     /\ \A u \in users', v \in users :
          v.id = u.id /\ ~v.verified /\ u.verified
            => v.verificationToken # NoToken /\ u.verificationToken = NoToken]_vars

\* The step is client c's login request for a username that is not stored.
LoginUnknown(c) ==
  /\ req[c].op = "idle" /\ req'[c].op = "idle"
  /\ \E un \in Usernames, pw \in Passwords :
       getUserByUsername(un) = {} /\ LoginRead(c, un, pw)

C10_Step ==
  \A c \in Clients :
    /\ LoginUnknown(c) => resp'[c] = 401 /\ session' = session
    /\ req[c].op = "idle" /\ req'[c].op = "login.compare"
         => \E u \in users :
              /\ u.username = req'[c].un /\ u.id = req'[c].uid
              /\ req'[c].want = (req'[c].pw = lastPw[u.id])
    /\ req[c].op = "login.compare" /\ req'[c].op = "idle"
         => IF req[c].want
            THEN resp'[c] = 200 /\ session'[c] = req[c].uid
            ELSE resp'[c] = 401 /\ session' = session

\* C10: a login for an unknown username is answered 401 and leaves every
\* session as it was; a login for a stored username succeeds (200, the
\* session is the user's) exactly when the supplied password is the one most
\* recently set for the user row the login read, at registration or by the
\* latest reset confirm, and is otherwise answered 401 with every session as
\* it was.
C10_LoginMatchesLatestPassword == [][C10_Step]_vars

\* After a reset confirm set pw2, a login with pw1 is about to be rejected
\* while another client is logged in as that user.
C10_Witness ==
  \E u \in users, c \in Clients, d \in Clients :
    /\ nextToken > 1
    /\ u.resetPasswordToken = NoToken
    /\ lastPw[u.id] = "pw2"
    /\ req[c].op = "login.compare" /\ req[c].uid = u.id
    /\ req[c].pw = "pw1" /\ ~req[c].want
    /\ session[d] = u.id /\ resp[d] = 200

\* The reset token a user row holds is the one a confirm may still use.
ValidToken(uid, token) ==
  /\ token # NoToken
  /\ \E u \in users : u.id = uid /\ u.resetPasswordToken = token

C11_Inv ==
  \A u \in users, v \in users :
    u.resetPasswordToken # NoToken /\ u.resetPasswordToken = v.resetPasswordToken
      => u = v

ConfirmStale(c) ==
  /\ req[c].op = "idle" /\ req'[c].op = "idle"
  /\ \E t \in 0..MaxTokens, pw \in Passwords :
       getUserByResetToken(t) = {} /\ ResetConfirm(c, t, pw)

C11_Step ==
  \A c \in Clients :
    /\ ConfirmStale(c) => resp'[c] = 400 /\ users' = users
    /\ req[c].op = "idle" /\ req'[c].op = "confirm.update"
         => ValidToken(req'[c].uid, req'[c].tok) /\ users' = users
    /\ req[c].op = "confirm.update" /\ req'[c].op = "idle"
         => \/ ValidToken(req[c].uid, req[c].tok)
            \/ resp'[c] = 400 /\ users' = users

\* C11: no two users hold the same reset token, and a reset confirm changes
\* a password only while the token it presented is still the one stored for
\* that user: a confirm whose token was already used, superseded or never
\* issued is answered 400 and leaves every user row as it was.
C11_ResetTokenSingleUse == []C11_Inv /\ [][C11_Step]_vars

\* The stored messages userId sent or received.
InvolvedIn(userId) ==
  {i \in DOMAIN messages :
     messages[i].senderId = userId \/ messages[i].receiverId = userId}

C12_Exact(userId, result) ==
  /\ {result[i] : i \in DOMAIN result} = {messages[i] : i \in InvolvedIn(userId)}
  /\ Len(result) = Cardinality(InvolvedIn(userId))
  /\ \A i \in DOMAIN result, j \in DOMAIN result :
       i < j => result[i].createdAt <= result[j].createdAt

\* C12: for every user id, whatever getMessagesByUser returns holds exactly
\* the stored messages the id sent or received, each once, with createdAt
\* ascending.
C12_MessagesOfUserExact ==
  \A userId \in PeerIds :
    \A result \in getMessagesByUser(userId) : C12_Exact(userId, result)

\* The ids userId has exchanged a message with, itself excluded.
Partners(userId) ==
  {p \in PeerIds \ {userId} :
     \E i \in DOMAIN messages :
       \/ messages[i].senderId = userId /\ messages[i].receiverId = p
       \/ messages[i].senderId = p /\ messages[i].receiverId = userId}

Contains(str, q) ==
  \E i \in 1..(Len(str) + 1 - Len(q)) : SubSeq(str, i, i + Len(q) - 1) = q

\* The users the claim lets the query return.
Eligible(userId, q) ==
  {u \in users :
     /\ u.id \in Partners(userId)
     /\ q # <<>> => Contains(Chars(u.username), q)}

C13_Allowed(userId, q, result) ==
  /\ result \subseteq Eligible(userId, q)
  /\ Cardinality(result) <= QueryLimit
  /\ Cardinality(Eligible(userId, q)) <= QueryLimit => result = Eligible(userId, q)
  /\ Partners(userId) = {} => result = {}

\* C13: for every user and every q, whatever getUniqueMessageUsers returns
\* holds only other users who exchanged a message with the user and, for a
\* given q, whose username contains q; at most the limit of them; all of
\* them when they are no more than the limit; none when the user has no
\* conversation partner.
C13_OnlyConversationPartners ==
  \A u \in users, q \in Queries :
    \A result \in getUniqueMessageUsers(u.id, q) : C13_Allowed(u.id, q, result)

====
